---------------------------- MODULE Spec2Model ----------------------------
(***************************************************************************)
(* A model of sumry: one run of the command `main` (src/sumry/cli.py) and  *)
(* the type detector and the four readers it calls (src/sumry/readers.py). *)
(*                                                                         *)
(* Python strings that the code takes apart (the file name, the --select   *)
(* option, sheet names) are sequences of one-character strings, so that    *)
(* Path.suffix, str.lower, str.split, str.strip, str.isdigit and int are   *)
(* computed and not assumed.  Python's None is the string "None" where the *)
(* other values are strings, and a record with a `given` flag otherwise.   *)
(***************************************************************************)
EXTENDS Integers, Sequences, FiniteSets, TLC

VARIABLES
    pc,                 \* position of the run: "cli", "exists", "detect", "read", "present", "exit"
    file,               \* the file named on the command line, and what is in it
    verbose,            \* --verbose
    select,             \* --select: [given, text]
    count,              \* --count:  [given, n]
    json_output,        \* --json
    file_type,          \* detect_file_type's result ("None" before it runs)
    opened,             \* whether detect_file_type opened the file
    sample_count,       \* the local sample_count of main: [given, n]
    sheets_to_process,  \* read_excel's local list of sheet names
    sheets_read,        \* the sheets _read_single_excel_sheet was called on, in order
    summary,            \* the record the reader returned
    raised,             \* the exception the try block of main caught ("" for none)
    steps,              \* the steps of main performed so far, in order
    exit_code           \* the process's exit code (-1 while running)

vars == <<pc, file, verbose, select, count, json_output, file_type, opened,
          sample_count, sheets_to_process, sheets_read, summary, raised, steps,
          exit_code>>

----------------------------------------------------------------------------
(* Bounds of the model. *)

\* Longest --select text, in characters.
MaxSelectLen == 3
\* Most sheets in a workbook.
MaxSheets == 2
\* Most rows of a table (CSV file or sheet).
MaxRows == 6
\* Most features of a GeoJSON file or shapefile.
MaxFeatures == 2
\* Largest --count value tried (the smallest is -1).
MaxCount == 6

----------------------------------------------------------------------------
(* Strings. *)

Range(s) == {s[i] : i \in DOMAIN s}

SeqsUpTo(S, n) == UNION {[1..k -> S] : k \in 0..n}

\* str.lower() on one character, for the letters the model's names use.
LowerChar(c) ==
    CASE c = "C" -> "c" [] c = "S" -> "s" [] c = "V" -> "v" [] c = "T" -> "t"
      [] c = "X" -> "x" [] c = "L" -> "l" [] c = "M" -> "m" [] c = "G" -> "g"
      [] c = "E" -> "e" [] c = "O" -> "o" [] c = "J" -> "j" [] c = "N" -> "n"
      [] c = "H" -> "h" [] c = "P" -> "p"
      [] OTHER -> c

lower(s) == [i \in DOMAIN s |-> LowerChar(s[i])]

\* The last index of character c in s, 0 when there is none (str.rfind + 1).
RECURSIVE rfind(_, _, _)
rfind(s, c, i) ==
    IF i = 0 THEN 0
    ELSE IF s[i] = c THEN i
    ELSE rfind(s, c, i - 1)

\* pathlib's PurePath.suffix of a file name: the part from the last dot on,
\* empty when the dot is the first or the last character.
suffix(name) ==
    LET i == rfind(name, ".", Len(name))
    IN  IF 1 < i /\ i < Len(name) THEN SubSeq(name, i, Len(name)) ELSE <<>>

----------------------------------------------------------------------------
(* detect_file_type *)

ExtCsv     == <<".", "c", "s", "v">>
ExtTsv     == <<".", "t", "s", "v">>
ExtXlsx    == <<".", "x", "l", "s", "x">>
ExtXls     == <<".", "x", "l", "s">>
ExtXlsm    == <<".", "x", "l", "s", "m">>
ExtGeojson == <<".", "g", "e", "o", "j", "s", "o", "n">>
ExtJson    == <<".", "j", "s", "o", "n">>
ExtShp     == <<".", "s", "h", "p">>

\* What open() + json.load() give for the file: `ok` is FALSE when either
\* raises (unreadable file, malformed JSON); `top` is the kind of the
\* top-level value; `type` is data.get('type') of a top-level object:
\* [kind |-> "absent" | "str" | "other", text |-> the string].
json_load(f) == f.json

\* isinstance(data, dict) and data.get('type') in ['Feature', 'FeatureCollection']
IsFeatureObjectAnyCase(data) ==
    /\ data.top = "object"
    /\ data.type.kind = "str"
    /\ data.type.text \in {"Feature", "FeatureCollection", "feature"}

IsFeatureObject(data) ==
    /\ data.top = "object"
    /\ data.type.kind = "str"
    /\ data.type.text \in {"Feature", "FeatureCollection"}

\* The .json branch: the try block around open/json.load/the test, with the
\* bare except that swallows every exception.
PeekJson(f) ==
    LET data == json_load(f)
    IN  IF ~data.ok THEN "None"
        ELSE IF IsFeatureObject(data) THEN "GeoJSON"
        ELSE "None"

detect_file_type_case_sensitive(f) ==
    LET sfx == suffix(f.name)
    IN  IF sfx \in {ExtCsv, ExtTsv} THEN "CSV"
        ELSE IF sfx \in {ExtXlsx, ExtXls, ExtXlsm} THEN "Excel"
        ELSE IF sfx \in {ExtGeojson, ExtJson}
             THEN IF sfx = ExtJson THEN PeekJson(f) ELSE "GeoJSON"
        ELSE IF sfx \in {ExtShp} THEN "Shapefile"
        ELSE "None"

detect_file_type(f) ==
    LET sfx == lower(suffix(f.name))
    IN  IF sfx \in {ExtCsv, ExtTsv} THEN "CSV"
        ELSE IF sfx \in {ExtXlsx, ExtXls, ExtXlsm} THEN "Excel"
        ELSE IF sfx \in {ExtGeojson, ExtJson}
             THEN IF sfx = ExtJson THEN PeekJson(f) ELSE "GeoJSON"
        ELSE IF sfx \in {ExtShp} THEN "Shapefile"
        ELSE "None"

\* Whether detect_file_type opens the file: only on the .json branch.
detect_opens(f) == lower(suffix(f.name)) = ExtJson

----------------------------------------------------------------------------
(* The --select text: str.split, str.strip, str.isdigit, int *)

\* The character U+00B2 (superscript two), one character of the text.
SuperscriptTwo == "^2"

DecimalChars == {"0", "1", "2"}

\* str.isdigit() accepts every character whose Unicode Numeric_Type is
\* Digit or Decimal: the decimal digits, and also superscript digits.
DigitChars == DecimalChars \cup {SuperscriptTwo}

\* str.isspace() characters of the model.
SpaceChars == {" "}

\* The first index of character c in s at or after i, 0 when there is none.
RECURSIVE find(_, _, _)
find(s, c, i) ==
    IF i > Len(s) THEN 0
    ELSE IF s[i] = c THEN i
    ELSE find(s, c, i + 1)

\* s.split(sep): the pieces between the separators, empty pieces kept.
RECURSIVE split(_, _)
split(s, sep) ==
    LET i == find(s, sep, 1)
    IN  IF i = 0 THEN <<s>>
        ELSE <<SubSeq(s, 1, i - 1)>> \o split(SubSeq(s, i + 1, Len(s)), sep)

RECURSIVE lstrip(_)
lstrip(s) ==
    IF s # <<>> /\ Head(s) \in SpaceChars THEN lstrip(Tail(s)) ELSE s

RECURSIVE rstrip(_)
rstrip(s) ==
    IF s # <<>> /\ s[Len(s)] \in SpaceChars
    THEN rstrip(SubSeq(s, 1, Len(s) - 1)) ELSE s

\* s.strip()
strip(s) == rstrip(lstrip(s))

\* s.isdigit(): non-empty and every character a digit.
isdigit(s) == s # <<>> /\ \A i \in DOMAIN s : s[i] \in DigitChars

DigitValue(c) == CASE c = "0" -> 0 [] c = "1" -> 1 [] c = "2" -> 2 [] OTHER -> 0

RECURSIVE DecimalValue(_)
DecimalValue(s) ==
    IF s = <<>> THEN 0
    ELSE 10 * DecimalValue(SubSeq(s, 1, Len(s) - 1)) + DigitValue(s[Len(s)])

\* int(s) for a string that passed isdigit(): the decimal value, or
\* ValueError when a character is a digit that is not a decimal digit.
int(s) ==
    IF \A i \in DOMAIN s : s[i] \in DecimalChars
    THEN [ok |-> TRUE, value |-> DecimalValue(s)]
    ELSE [ok |-> FALSE, value |-> 0]

\* sep.join(parts)
RECURSIVE join(_, _)
join(parts, sep) ==
    IF parts = <<>> THEN <<>>
    ELSE IF Len(parts) = 1 THEN parts[1]
    ELSE parts[1] \o sep \o join(Tail(parts), sep)

----------------------------------------------------------------------------
(* Tables: what pandas / geopandas hand to the readers *)

(* A data frame is [cols, nrows]; a column is [name, dtype, missing], with *)
(* `missing` the set of row numbers whose value is NaN/None.  The value of *)
(* row i in column c is the pair <<i, c>>: values are opaque to the code,  *)
(* which only counts, orders and copies them.  The geometry column of a    *)
(* GeoDataFrame is the column named "geometry"; geom_type gives the        *)
(* geometry type of each feature ("None" for a null geometry).             *)

Min(a, b) == IF a < b THEN a ELSE b

NaN == <<0, "NaN">>

Cell(col, i) == IF i \in col.missing THEN NaN ELSE <<i, col.name>>

ColumnNames(df) == {df.cols[k].name : k \in DOMAIN df.cols}

ColumnNamed(df, n) == df.cols[CHOOSE k \in DOMAIN df.cols : df.cols[k].name = n]

\* pd.api.types.is_numeric_dtype
is_numeric_dtype(col) == col.dtype \in {"int64", "float64"}

\* Series.dropna(): the rows that hold a value, in order.
dropna(col, nrows) ==
    LET Present(i) == i \notin col.missing
    IN  SelectSeq([i \in 1..nrows |-> i], Present)

\* Series.head(n) / DataFrame.head(n) for n > 0, on a sequence.
head(rows, n) == SubSeq(rows, 1, Min(n, Len(rows)))

\* The 5 of `.dropna().head(5)`.
SampleValuesHead == 5

\* for col in df.columns: {"name": col, "type": str(df[col].dtype)},
\* the geometry column skipped when skip_geometry (the geo readers).
column_infos_with_geometry(df, skip_geometry) ==
    [k \in DOMAIN df.cols |-> [name |-> df.cols[k].name, type |-> df.cols[k].dtype]]

column_infos(df, skip_geometry) ==
    LET Kept(c) == ~(skip_geometry /\ c.name = "geometry")
        kept == SelectSeq(df.cols, Kept)
    IN  [k \in DOMAIN kept |-> [name |-> kept[k].name, type |-> kept[k].dtype]]

\* The names the verbose loop and the sample rows run over.
FieldNames(df, skip_geometry) ==
    {n \in ColumnNames(df) : ~(skip_geometry /\ n = "geometry")}

\* summary["sample_values"][col] = df[col].dropna().head(5).tolist()
sample_values(df, skip_geometry) ==
    [n \in FieldNames(df, skip_geometry) |->
        LET col  == ColumnNamed(df, n)
            rows == head(dropna(col, df.nrows), SampleValuesHead)
        IN  [k \in DOMAIN rows |-> Cell(col, rows[k])]]

\* float(x) if not pd.isna(x) else None, for x the min, max or mean.
Aggregate(col, nrows) == IF dropna(col, nrows) = <<>> THEN "None" ELSE "float"

\* Series.nunique(): the number of distinct non-missing values.
nunique(col, nrows) == Len(dropna(col, nrows))

numeric_statistics(col, nrows) ==
    [min |-> Aggregate(col, nrows), max |-> Aggregate(col, nrows),
     mean |-> Aggregate(col, nrows), unique |-> nunique(col, nrows)]

\* df[col].value_counts().head(1).index[0] if not df[col].empty else None.
\* value_counts() leaves the missing values out, so index[0] raises
\* IndexError on a column that has rows and no value.
most_common_raises_unguarded(col, nrows) == dropna(col, nrows) = <<>>

most_common_raises(col, nrows) == nrows > 0 /\ dropna(col, nrows) = <<>>

most_common(col, nrows) ==
    IF nrows = 0 THEN <<0, "None">> ELSE Cell(col, dropna(col, nrows)[1])

\* summary["statistics"] of read_csv and _read_single_excel_sheet.
table_statistics(df) ==
    [n \in ColumnNames(df) |->
        LET col == ColumnNamed(df, n)
        IN  IF is_numeric_dtype(col)
            THEN numeric_statistics(col, df.nrows)
            ELSE IF most_common_raises(col, df.nrows)
                 THEN [unique |-> nunique(col, df.nrows)]
                 ELSE [unique |-> nunique(col, df.nrows),
                       most_common |-> most_common(col, df.nrows)]]

table_statistics_raises(df) ==
    \E n \in ColumnNames(df) :
        LET col == ColumnNamed(df, n)
        IN  ~is_numeric_dtype(col) /\ most_common_raises(col, df.nrows)

\* summary["statistics"] of read_geojson and read_shapefile.
geo_statistics(gdf) ==
    [n \in FieldNames(gdf, TRUE) |->
        LET col == ColumnNamed(gdf, n)
        IN  IF is_numeric_dtype(col)
            THEN numeric_statistics(col, gdf.nrows)
            ELSE [unique |-> nunique(col, gdf.nrows)]]

\* df.head(sample_count).to_dict('records'), and the geo readers' loop over
\* sample_gdf.iterrows() that leaves the geometry column out.
sample_rows(df, n, skip_geometry) ==
    LET rows == head([i \in 1..df.nrows |-> i], n)
    IN  [k \in DOMAIN rows |->
            [c \in FieldNames(df, skip_geometry) |-> Cell(ColumnNamed(df, c), rows[k])]]

\* if sample_count is not None and sample_count > 0
wants_sample(n) == n.given /\ n.n > 0

\* A Python dict with one more key.
With(rec, key, value) == (key :> value) @@ rec

\* The verbose block and the sample block shared by the four readers.
finish_summary(base, df, is_verbose, n, skip_geometry, stats) ==
    LET v == IF is_verbose
             THEN With(With(base, "sample_values", sample_values(df, skip_geometry)),
                       "statistics", stats)
             ELSE base
    IN  IF wants_sample(n)
        THEN With(v, "sample_data", sample_rows(df, n.n, skip_geometry))
        ELSE v

\* What a reader hands back: the exception it raised ("" for none) and the
\* record it returned.
NoSummary == [k \in {} |-> 0]

Raise(exc) == [raised |-> exc, summary |-> NoSummary]

Return(rec) == [raised |-> "", summary |-> rec]

\* f"{df.memory_usage(deep=True).sum() / 1024:.2f} KB"
MemoryUsage(df) == "KB"

----------------------------------------------------------------------------
(* read_csv *)

read_csv(f, is_verbose, n) ==
    IF ~f.table.ok THEN Raise("ParserError")
    ELSE
      LET df   == f.table.df
          base == [basic_info |->
                       ("File" :> f.name) @@ ("Rows" :> df.nrows)
                       @@ ("Columns" :> Len(df.cols))
                       @@ ("Memory Usage" :> MemoryUsage(df)),
                   columns |-> column_infos(df, FALSE)]
      IN  IF is_verbose /\ table_statistics_raises(df) THEN Raise("IndexError")
          ELSE Return(finish_summary(base, df, is_verbose, n, FALSE,
                                     table_statistics(df)))

----------------------------------------------------------------------------
(* read_excel and _read_single_excel_sheet *)

(* A workbook is [ok, sheet_names, tables]: `ok` is FALSE when              *)
(* pd.ExcelFile raises, sheet_names is xl_file.sheet_names, and tables maps *)
(* each sheet name to [ok, df], `ok` FALSE when pd.read_excel raises on it. *)

\* What one token of the selector adds to sheets_to_process.
token_sheets(sheet, sheet_names) ==
    IF isdigit(sheet)
    THEN LET index == int(sheet).value
         IN  IF 0 <= index /\ index < Len(sheet_names)
             THEN <<sheet_names[index + 1]>> ELSE <<>>
    ELSE IF sheet \in Range(sheet_names) THEN <<sheet>>
    ELSE <<>>

\* int(sheet) raises ValueError
token_raises(sheet) == isdigit(sheet) /\ ~int(sheet).ok

\* selected_sheets = [s.strip() for s in select.split(',')]
selected_sheets(text) ==
    LET parts == split(text, ",")
    IN  [k \in DOMAIN parts |-> strip(parts[k])]

RECURSIVE resolve(_, _)
resolve(tokens, sheet_names) ==
    IF tokens = <<>> THEN <<>>
    ELSE token_sheets(Head(tokens), sheet_names) \o resolve(Tail(tokens), sheet_names)

\* `if select:` is false for None and for the empty string.
truthy(sel) == sel.given /\ sel.text # <<>>

\* The block that fills sheets_to_process: [raised, sheets].
parse_select(sheet_names, sel) ==
    IF truthy(sel)
    THEN LET tokens == selected_sheets(sel.text)
         IN  IF \E k \in DOMAIN tokens : token_raises(tokens[k])
             THEN [raised |-> "ValueError", sheets |-> <<>>]
             ELSE [raised |-> "", sheets |-> resolve(tokens, sheet_names)]
    ELSE IF sheet_names # <<>>
         THEN [raised |-> "", sheets |-> <<sheet_names[1]>>]
         ELSE [raised |-> "", sheets |-> <<>>]

_read_single_excel_sheet(f, sheet_name, is_verbose, n) ==
    LET t == f.workbook.tables[sheet_name]
    IN  IF ~t.ok THEN Raise("SheetReadError")
        ELSE
          LET df   == t.df
              base == [basic_info |->
                           ("Sheet" :> sheet_name) @@ ("Rows" :> df.nrows)
                           @@ ("Columns" :> Len(df.cols))
                           @@ ("Memory Usage" :> MemoryUsage(df)),
                       columns |-> column_infos(df, FALSE)]
          IN  IF is_verbose /\ table_statistics_raises(df) THEN Raise("IndexError")
              ELSE Return(finish_summary(base, df, is_verbose, n, FALSE,
                                         table_statistics(df)))

\* The record of the `if not sheets_to_process` branch.
no_valid_sheets(f) ==
    [basic_info |->
        ("File" :> f.name)
        @@ ("Error" :> [text |-> "No valid sheets found. Available sheets: ",
                        sheets |-> join(f.workbook.sheet_names, <<",", " ">>)])]

\* The `if len(sheets_to_process) > 1` branch.
read_many_sheets_isolated(f, sheets, is_verbose, n) ==
    LET one(name) == _read_single_excel_sheet(f, name, is_verbose, n)
    IN  Return(
          [basic_info |->
               ("File" :> f.name)
               @@ ("Total Sheets" :> Len(f.workbook.sheet_names))
               @@ ("Selected Sheets" :> Len(sheets))
               @@ ("Sheet Names" :> join(sheets, <<",", " ">>)),
           sheets |->
               [name \in {x \in Range(sheets) : one(x).raised = ""} |->
                   one(name).summary]])

read_many_sheets(f, sheets, is_verbose, n) ==
    LET one(k) == _read_single_excel_sheet(f, sheets[k], is_verbose, n)
        failed == {k \in DOMAIN sheets : one(k).raised # ""}
    IN  IF failed # {}
        THEN Raise(one(CHOOSE k \in failed : \A j \in failed : k <= j).raised)
        ELSE Return(
               [basic_info |->
                    ("File" :> f.name)
                    @@ ("Total Sheets" :> Len(f.workbook.sheet_names))
                    @@ ("Selected Sheets" :> Len(sheets))
                    @@ ("Sheet Names" :> join(sheets, <<",", " ">>)),
                sheets |->
                    [name \in Range(sheets) |->
                        _read_single_excel_sheet(f, name, is_verbose, n).summary]])

\* The else branch: one sheet, the flat record with the workbook's metadata.
read_one_sheet_as_many(f, sheets, is_verbose, n) ==
    read_many_sheets(f, sheets, is_verbose, n)

read_one_sheet(f, sheets, is_verbose, n) ==
    LET r == _read_single_excel_sheet(f, sheets[1], is_verbose, n)
    IN  IF r.raised # "" THEN r
        ELSE Return(
               With(r.summary, "basic_info",
                    ("File" :> f.name)
                    @@ ("Total Sheets" :> Len(f.workbook.sheet_names))
                    @@ ("All Sheet Names" :> join(f.workbook.sheet_names, <<",", " ">>))
                    @@ r.summary.basic_info))

\* read_excel's result once sheets_to_process is known.
read_sheets(f, sheets, is_verbose, n) ==
    IF sheets = <<>> THEN Return(no_valid_sheets(f))
    ELSE IF Len(sheets) > 1 THEN read_many_sheets(f, sheets, is_verbose, n)
    ELSE read_one_sheet(f, sheets, is_verbose, n)

read_excel(f, is_verbose, sel, n) ==
    IF ~f.workbook.ok THEN Raise("ExcelFileError")
    ELSE LET p == parse_select(f.workbook.sheet_names, sel)
         IN  IF p.raised # "" THEN Raise(p.raised)
             ELSE read_sheets(f, p.sheets, is_verbose, n)

\* The value of the local sheets_to_process when read_excel ends.
read_excel_sheets(f, sel) ==
    IF ~f.workbook.ok THEN <<>>
    ELSE parse_select(f.workbook.sheet_names, sel).sheets

\* The calls of _read_single_excel_sheet that read_excel makes, in order:
\* one per entry of sheets_to_process, up to and including the first call
\* that raises.
read_excel_calls(f, is_verbose, sel, n) ==
    LET sheets == read_excel_sheets(f, sel)
        failed == {k \in DOMAIN sheets :
                      _read_single_excel_sheet(f, sheets[k], is_verbose, n).raised # ""}
    IN  IF ~f.workbook.ok \/ parse_select(f.workbook.sheet_names, sel).raised # ""
        THEN <<>>
        ELSE IF failed = {} THEN sheets
        ELSE SubSeq(sheets, 1, CHOOSE k \in failed : \A j \in failed : k <= j)

----------------------------------------------------------------------------
(* read_geojson and read_shapefile *)

(* A feature set is [ok, df, geom_type, crs]: `ok` is FALSE when            *)
(* gpd.read_file raises; df holds the fields, the geometry column among     *)
(* them; geom_type[i] is the geometry type of feature i.                    *)

Polygonal == {"Polygon", "MultiPolygon"}

Linear == {"LineString", "MultiLineString"}

\* gdf.geometry.geom_type.value_counts(): type -> count, null geometries
\* left out.
geometry_types(g) ==
    [t \in Range(g.geom_type) \ {"None"} |->
        Cardinality({i \in DOMAIN g.geom_type : g.geom_type[i] = t})]

\* gdf.geometry.geom_type.iloc[0] raises IndexError on an empty series.
first_type_raises(g) == g.geom_type = <<>>

\* f"{area_sum:.6f}" if area_sum is not None else "N/A"
total_area(g) == IF g.geom_type[1] \in Polygonal THEN "%.6f" ELSE "N/A"

\* f"{length_sum:.6f}" if length_sum is not None else "N/A"
total_length(g) == IF g.geom_type[1] \in Linear THEN "%.6f" ELSE "N/A"

geometry_info(g) ==
    ("Geometry Types" :> geometry_types(g))
    @@ ("Bounds (minx, miny, maxx, maxy)" :> "[%.6f, %.6f, %.6f, %.6f]")
    @@ ("Total Area" :> total_area(g))
    @@ ("Total Length" :> total_length(g))

\* The body the two geo readers share, line for line.
read_geo(f, is_verbose, n) ==
    IF ~f.gdf.ok THEN Raise("DataSourceError")
    ELSE
      LET g    == f.gdf
          df   == g.df
          geom == "geometry" \in ColumnNames(df)
      IN  IF geom /\ first_type_raises(g) THEN Raise("IndexError")
          ELSE
            LET base == [basic_info |->
                             ("File" :> f.name) @@ ("Features" :> df.nrows)
                             @@ ("CRS" :> g.crs)
                             @@ ("Memory Usage" :> MemoryUsage(df)),
                         columns |-> column_infos(df, TRUE),
                         geometry_info |->
                             IF geom THEN geometry_info(g) ELSE NoSummary]
            IN  Return(finish_summary(base, df, is_verbose, n, TRUE,
                                      geo_statistics(df)))

read_geojson(f, is_verbose, n) == read_geo(f, is_verbose, n)

read_shapefile(f, is_verbose, n) == read_geo(f, is_verbose, n)

----------------------------------------------------------------------------
(* The presenter: json.dumps(summary, indent=2, default=str) and            *)
(* display_summary                                                         *)

(* A column name is the header cell as pandas read it.  A CSV header and a  *)
(* GeoJSON property name are always str; a spreadsheet header cell that     *)
(* holds a number or a date gives an int or a datetime name.                *)
IntNames == {"#2020"}

DatetimeNames == {"#2020-01-01"}

is_str(name) == name \notin IntNames \cup DatetimeNames

\* The flat records to render: the nested ones when "sheets" is present.
rendered_records(rec) ==
    IF "sheets" \in DOMAIN rec
    THEN {rec.sheets[k] : k \in DOMAIN rec.sheets}
    ELSE {rec}

\* _display_sheet_summary builds rich.text.Text(col_info["name"]), which
\* raises on a name that is not a str.
display_raises(rec) ==
    \E r \in rendered_records(rec) :
        /\ "columns" \in DOMAIN r
        /\ \E k \in DOMAIN r.columns : ~is_str(r.columns[k].name)

\* json.dumps raises TypeError on a dict key that is not str, int, float,
\* bool or None (default= is not applied to keys): the column names are keys
\* of sample_values, of statistics and of every row of sample_data.
dumps_raises(rec) ==
    \E r \in rendered_records(rec) :
        \/ /\ "statistics" \in DOMAIN r
           /\ DOMAIN r.statistics \cap DatetimeNames # {}
        \/ /\ "sample_data" \in DOMAIN r
           /\ \E i \in DOMAIN r.sample_data :
                  DOMAIN r.sample_data[i] \cap DatetimeNames # {}

present_raises(rec, as_json) ==
    IF as_json THEN dumps_raises(rec) ELSE display_raises(rec)

----------------------------------------------------------------------------
(* main *)

None == [given |-> FALSE, n |-> 0]

Some(n) == [given |-> TRUE, n |-> n]

\* The 5 of `sample_count = 5 if count is not None and count <= 0 else count`.
DefaultCount == 5

sample_count_of_negative_only(c) ==
    IF c.given /\ c.n < 0 THEN Some(DefaultCount) ELSE c

sample_count_of(c) ==
    IF c.given /\ c.n <= 0 THEN Some(DefaultCount) ELSE c

\* The if/elif chain over file_type; the else branch (no handler) cannot be
\* reached with a tag detect_file_type returns.
call_reader(tag, f, is_verbose, sel, n) ==
    IF tag = "CSV" THEN read_csv(f, is_verbose, n)
    ELSE IF tag = "Excel" THEN read_excel(f, is_verbose, sel, n)
    ELSE IF tag = "GeoJSON" THEN read_geojson(f, is_verbose, n)
    ELSE IF tag = "Shapefile" THEN read_shapefile(f, is_verbose, n)
    ELSE Raise("Exit")

\* raise typer.Exit(code)
Exit(code) ==
    /\ pc' = "exit"
    /\ exit_code' = code

\* The code Click ends the process with when an argument fails validation.
UsageErrorCode == 2

\* The code of every `raise typer.Exit(1)` of main.
ErrorCode == 1

\* typer.Argument(..., exists=True): Click checks that the path exists while
\* it parses the command line, before it calls main, and ends the process
\* with a usage error when it does not.
ArgValidation ==
    /\ pc = "cli"
    /\ IF ~file.exists
       THEN Exit(UsageErrorCode)
       ELSE pc' = "exists" /\ UNCHANGED exit_code
    /\ UNCHANGED <<file, verbose, select, count, json_output, file_type, opened,
                   sample_count, sheets_to_process, sheets_read, summary, raised,
                   steps>>

\* if not file_path.exists(): ... raise typer.Exit(1)
ExistsCheck ==
    /\ pc = "exists"
    /\ steps' = Append(steps, "exists")
    /\ IF ~file.still_exists
       THEN Exit(ErrorCode)
       ELSE pc' = "detect" /\ UNCHANGED exit_code
    /\ UNCHANGED <<file, verbose, select, count, json_output, file_type, opened,
                   sample_count, sheets_to_process, sheets_read, summary, raised>>

\* file_type = detect_file_type(file_path); if not file_type: ... Exit(1)
DetectType ==
    /\ pc = "detect"
    /\ steps' = Append(steps, "detect")
    /\ file_type' = detect_file_type(file)
    /\ opened' = detect_opens(file)
    /\ IF file_type' = "None"
       THEN Exit(ErrorCode)
       ELSE pc' = "read" /\ UNCHANGED exit_code
    /\ UNCHANGED <<file, verbose, select, count, json_output,
                   sample_count, sheets_to_process, sheets_read, summary, raised>>

\* The try block up to the reader's return, and the except clause for an
\* exception the reader raises.
ReadFile ==
    /\ pc = "read"
    /\ steps' = Append(steps, "read")
    /\ sample_count' = sample_count_of(count)
    /\ LET r == call_reader(file_type, file, verbose, select, sample_count')
       IN  /\ summary' = r.summary
           /\ raised' = r.raised
           /\ sheets_to_process' =
                  IF file_type = "Excel" THEN read_excel_sheets(file, select)
                  ELSE <<>>
           /\ sheets_read' =
                  IF file_type = "Excel"
                  THEN read_excel_calls(file, verbose, select, sample_count')
                  ELSE <<>>
           /\ IF r.raised # ""
              THEN Exit(ErrorCode)
              ELSE pc' = "present" /\ UNCHANGED exit_code
    /\ UNCHANGED <<file, verbose, select, count, json_output, file_type, opened>>

\* print(json.dumps(...)) or display_summary(...), and the except clause for
\* an exception either raises; the run ends with code 0 when neither does.
Present ==
    /\ pc = "present"
    /\ steps' = Append(steps, "present")
    /\ IF present_raises(summary, json_output)
       THEN /\ raised' = (IF json_output THEN "TypeError" ELSE "AttributeError")
            /\ Exit(ErrorCode)
       ELSE raised' = raised /\ Exit(0)
    /\ UNCHANGED <<file, verbose, select, count, json_output, file_type, opened,
                   sample_count, sheets_to_process, sheets_read, summary>>

Next ==
    \/ ArgValidation
    \/ ExistsCheck
    \/ DetectType
    \/ ReadFile
    \/ Present

----------------------------------------------------------------------------
(* The inputs of a run *)

\* pandas' type inference for one column of a CSV file or sheet: a column
\* without rows is object, a column with rows and no value is float64.
infer_dtype(kind, missing, nrows) ==
    IF nrows = 0 THEN "object"
    ELSE IF missing = 1..nrows THEN "float64"
    ELSE IF kind = "num" THEN (IF missing = {} THEN "int64" ELSE "float64")
    ELSE "object"

Column(name, kind, missing, nrows) ==
    [name |-> name, dtype |-> infer_dtype(kind, missing, nrows), missing |-> missing]

\* A table of nrows rows with a numeric and a text column, the text column
\* missing its values in the rows `missing`.
Table(nrows, missing, text_name) ==
    [cols |-> <<Column("id", "num", {}, nrows),
                Column(text_name, "text", missing, nrows)>>,
     nrows |-> nrows]

EmptyDf == [cols |-> <<>>, nrows |-> 0]

NoJson == [ok |-> FALSE, top |-> "none", type |-> [kind |-> "absent", text |-> ""]]

NoTable == [ok |-> FALSE, df |-> EmptyDf]

NoWorkbook == [ok |-> FALSE, sheet_names |-> <<>>, tables |-> NoSummary]

NoGdf == [ok |-> FALSE, df |-> EmptyDf, geom_type |-> <<>>, crs |-> "None"]

NoSelect == [given |-> FALSE, text |-> <<>>]

Text(t) == [given |-> TRUE, text |-> t]

\* File names: a stem and what follows it.
Stems == {<<"d">>, <<>>, <<"d", ".", "j", "s", "o", "n">>}

Endings ==
    {ExtCsv, ExtTsv, ExtXlsx, ExtXls, ExtXlsm, ExtGeojson, ExtJson, ExtShp,
     <<".", "C", "S", "V">>, <<".", "T", "s", "v">>, <<".", "X", "L", "S", "X">>,
     <<".", "X", "l", "s">>, <<".", "x", "l", "s", "M">>,
     <<".", "G", "e", "o", "J", "S", "O", "N">>, <<".", "J", "S", "O", "N">>,
     <<".", "j", "s", "o", "N">>, <<".", "S", "H", "P">>,
     <<".", "t", "x", "t">>, <<".", "c", "s">>, <<".", "c", "s", "v", "x">>,
     <<".", "j", "s", "o", "n", "l">>, <<".", "s", "h", "x">>,
     <<".", "x", "m", "l">>, <<"c", "s", "v">>, <<".">>, <<>>}

\* What a .json file may hold.
JsonTypes ==
    {[kind |-> "absent", text |-> ""], [kind |-> "other", text |-> ""]}
    \cup {[kind |-> "str", text |-> t] :
            t \in {"Feature", "FeatureCollection", "feature", "Topology",
                   "GeometryCollection", ""}}

JsonContents ==
    {NoJson}
    \cup {[ok |-> TRUE, top |-> "object", type |-> t] : t \in JsonTypes}
    \cup {[ok |-> TRUE, top |-> k, type |-> [kind |-> "absent", text |-> ""]] :
            k \in {"array", "string", "number", "null"}}

\* Feature sets: the geometry types of up to MaxFeatures features, with and
\* without property fields; the geometry column is the last one, as
\* gpd.read_file builds it.
GeomTypes ==
    {"Polygon", "MultiPolygon", "LineString", "MultiLineString", "Point", "None"}

GeoDf(nrows, with_fields) ==
    [cols |-> (IF with_fields
               THEN <<Column("id", "num", {}, nrows),
                      Column("name", "text", {}, nrows)>>
               ELSE <<>>)
              \o <<[name |-> "geometry", dtype |-> "geometry", missing |-> {}]>>,
     nrows |-> nrows]

Gdf(types, with_fields) ==
    [ok |-> TRUE, df |-> GeoDf(Len(types), with_fields), geom_type |-> types,
     crs |-> "EPSG:4326"]

Gdfs == {Gdf(t, w) : t \in SeqsUpTo(GeomTypes, MaxFeatures), w \in BOOLEAN}

\* Workbooks: up to MaxSheets sheets with distinct names, one of them
\* possibly unreadable.
SheetNames == {<<"a">>, <<"b">>, <<"1">>}

SheetLists ==
    {l \in SeqsUpTo(SheetNames, MaxSheets) :
        l # <<>> /\ \A i, j \in DOMAIN l : l[i] = l[j] => i = j}

Workbook(names, bad, nrows, text_name) ==
    [ok |-> TRUE, sheet_names |-> names,
     tables |-> [s \in Range(names) |->
                    [ok |-> s \notin bad, df |-> Table(nrows, {}, text_name)]]]

\* The --select texts.
SelectChars == {"0", "1", "a", ",", " ", SuperscriptTwo}

Selects(n) == {NoSelect} \cup {Text(t) : t \in SeqsUpTo(SelectChars, n)}

\* A file that exists, with content every reader can read: one row, one
\* sheet, one point feature.
File(name) ==
    [exists |-> TRUE, still_exists |-> TRUE, name |-> name, json |-> NoJson,
     table |-> [ok |-> TRUE, df |-> Table(1, {}, "name")],
     workbook |-> Workbook(<<<<"a">>>>, {}, 1, "name"),
     gdf |-> Gdf(<<"Point">>, TRUE)]

Named(stem, ending) == File(stem \o ending)

Counts == {None} \cup {Some(n) : n \in -1..MaxCount}

InitWith(Files, Verboses, SelectSet, CountSet, Jsons) ==
    /\ pc = "cli"
    /\ file \in Files
    /\ verbose \in Verboses
    /\ select \in SelectSet
    /\ count \in CountSet
    /\ json_output \in Jsons
    /\ file_type = "None"
    /\ opened = FALSE
    /\ sample_count = None
    /\ sheets_to_process = <<>>
    /\ sheets_read = <<>>
    /\ summary = NoSummary
    /\ raised = ""
    /\ steps = <<>>
    /\ exit_code = -1

----------------------------------------------------------------------------
(* Specifications *)

FeatureJson == [ok |-> TRUE, top |-> "object", type |-> [kind |-> "str", text |-> "Feature"]]

\* Runs of the command over every kind of file: missing files, files that
\* vanish between Click's check and main's, unsupported types, and each
\* reader with content it can and cannot read.
CsvFiles ==
    {[Named(<<"d">>, ExtCsv) EXCEPT !.table = t] :
        t \in {NoTable} \cup {[ok |-> TRUE, df |-> Table(n, {}, "name")] : n \in 0..MaxRows}}

ExcelFiles ==
    {[Named(<<"d">>, ExtXlsx) EXCEPT !.workbook = w] :
        w \in {NoWorkbook}
              \cup {Workbook(l, b, MaxRows, h) :
                      l \in {<<<<"a">>>>, <<<<"a">>, <<"b">>>>},
                      b \in {{}, {<<"b">>}},
                      h \in {"name", "#2020", "#2020-01-01"}}}

GeoFiles ==
    {[[Named(<<"d">>, e) EXCEPT !.gdf = g] EXCEPT !.json = FeatureJson] :
        e \in {ExtGeojson, ExtJson, ExtShp},
        g \in {NoGdf, Gdf(<<>>, TRUE), Gdf(<<"Polygon">>, TRUE),
               Gdf(<<"LineString", "Polygon">>, TRUE), Gdf(<<"Point", "None">>, FALSE)}}

OtherFiles ==
    {[Named(<<"d">>, ExtCsv) EXCEPT !.exists = FALSE, !.still_exists = FALSE],
     [Named(<<"d">>, ExtCsv) EXCEPT !.still_exists = FALSE],
     Named(<<"d">>, <<".", "t", "x", "t">>),
     Named(<<"d">>, ExtJson)}

Init ==
    InitWith(CsvFiles \cup ExcelFiles \cup GeoFiles \cup OtherFiles,
             BOOLEAN,
             Selects(1) \cup {Text(<<"0", ",", "1">>)},
             Counts,
             BOOLEAN)

Spec == Init /\ [][Next]_vars

\* detect_file_type over file names and .json contents.
InitDetect ==
    InitWith({[Named(st, e) EXCEPT !.json = j] :
                 st \in Stems, e \in Endings, j \in JsonContents},
             {FALSE}, {NoSelect}, {None}, {FALSE})

SpecDetect == InitDetect /\ [][Next]_vars

\* read_excel over workbooks and --select texts.
InitExcel ==
    InitWith({[Named(<<"d">>, ExtXlsx) EXCEPT !.workbook = Workbook(l, b, 1, "name")] :
                 l \in SheetLists, b \in {{}, {<<"b">>}}},
             {FALSE}, Selects(MaxSelectLen), {Some(1)}, {FALSE})

SpecExcel == InitExcel /\ [][Next]_vars

\* The four readers over tables and feature sets of every size, with and
\* without --verbose, for every --count.
InitRead ==
    InitWith(CsvFiles
             \cup {[Named(<<"d">>, ExtXlsx) EXCEPT
                        !.workbook = Workbook(<<<<"a">>, <<"b">>>>, {}, n, "name")] :
                      n \in 0..MaxRows}
             \cup {[Named(<<"d">>, e) EXCEPT !.gdf = g] :
                      e \in {ExtGeojson, ExtShp}, g \in Gdfs},
             BOOLEAN,
             {NoSelect, Text(<<"0", ",", "1">>)},
             Counts,
             {TRUE})

SpecRead == InitRead /\ [][Next]_vars

\* Row sets a column may miss its values in: none, the odd rows, all.
MissingSets(nrows) == {{}, {i \in 1..nrows : i % 2 = 1}, 1..nrows}

\* A table whose numeric and text column miss values.
StatsTable(nrows, num_missing, text_missing) ==
    [cols |-> <<Column("id", "num", num_missing, nrows),
                Column("name", "text", text_missing, nrows)>>,
     nrows |-> nrows]

StatsTables ==
    UNION {{StatsTable(n, a, b) : a \in MissingSets(n), b \in MissingSets(n)} :
              n \in 0..MaxRows}

\* The dtype gpd.read_file gives a field: the source declares each field's
\* type, so a text field without a value stays object; an integer field with
\* a null is float64.
geo_dtype(kind, missing) ==
    IF kind = "num" THEN (IF missing = {} THEN "int64" ELSE "float64")
    ELSE "object"

\* A feature set of point features whose two fields miss values.
StatsGdf(nrows, num_missing, text_missing) ==
    [ok |-> TRUE,
     df |-> [cols |-> <<[name |-> "id", dtype |-> geo_dtype("num", num_missing),
                         missing |-> num_missing],
                        [name |-> "name", dtype |-> geo_dtype("text", text_missing),
                         missing |-> text_missing],
                        [name |-> "geometry", dtype |-> "geometry", missing |-> {}]>>,
             nrows |-> nrows],
     geom_type |-> [i \in 1..nrows |-> "Point"],
     crs |-> "EPSG:4326"]

StatsGdfs ==
    UNION {{StatsGdf(n, a, b) : a \in MissingSets(n), b \in MissingSets(n)} :
              n \in 0..MaxFeatures}

\* The four readers over tables and feature sets whose columns miss values.
InitStats ==
    InitWith({[Named(<<"d">>, ExtCsv) EXCEPT !.table = [ok |-> TRUE, df |-> t]] :
                 t \in StatsTables}
             \cup {[Named(<<"d">>, ExtXlsx) EXCEPT
                        !.workbook = [ok |-> TRUE,
                                      sheet_names |-> <<<<"a">>, <<"b">>>>,
                                      tables |-> [sh \in {<<"a">>, <<"b">>} |->
                                                     [ok |-> TRUE, df |-> t]]]] :
                      t \in StatsTables}
             \cup {[Named(<<"d">>, e) EXCEPT !.gdf = g] :
                      e \in {ExtGeojson, ExtShp}, g \in StatsGdfs},
             BOOLEAN,
             {NoSelect, Text(<<"0", ",", "1">>)},
             {None, Some(2)},
             BOOLEAN)

SpecStats == InitStats /\ [][Next]_vars

----------------------------------------------------------------------------
(* Properties *)

Done(step) == step \in Range(steps)

\* The file's extension, lower-cased.
Ext == lower(suffix(file.name))

\* C1: detect_file_type is decided by the extension alone, compared without
\* regard to case: .csv/.tsv give "CSV", .xlsx/.xls/.xlsm give "Excel", .shp
\* gives "Shapefile", .geojson gives "GeoJSON" without the file being
\* opened, and every extension other than these and .json (no extension
\* included) gives None.
C1_DetectByExtension ==
    Done("detect") =>
        /\ Ext \in {<<".", "c", "s", "v">>, <<".", "t", "s", "v">>} => file_type = "CSV"
        /\ Ext \in {<<".", "x", "l", "s", "x">>, <<".", "x", "l", "s">>,
                    <<".", "x", "l", "s", "m">>} => file_type = "Excel"
        /\ Ext = <<".", "s", "h", "p">> => file_type = "Shapefile"
        /\ Ext = <<".", "g", "e", "o", "j", "s", "o", "n">> =>
               file_type = "GeoJSON" /\ ~opened
        /\ Ext \notin {<<".", "c", "s", "v">>, <<".", "t", "s", "v">>,
                       <<".", "x", "l", "s", "x">>, <<".", "x", "l", "s">>,
                       <<".", "x", "l", "s", "m">>, <<".", "s", "h", "p">>,
                       <<".", "g", "e", "o", "j", "s", "o", "n">>,
                       <<".", "j", "s", "o", "n">>} => file_type = "None"

\* A file named d.XLSX has been detected as a spreadsheet.
C1_Witness ==
    /\ Done("detect")
    /\ file.name = <<"d", ".", "X", "L", "S", "X">>
    /\ file_type = "Excel"

\* C2: for a .json file, detect_file_type returns "GeoJSON" exactly when the
\* file parses as JSON, the top-level value is an object and its `type` is
\* the string "Feature" or "FeatureCollection"; otherwise it returns None,
\* and no exception leaves it: the run ends as an unsupported type.
C2_JsonPeek ==
    (Done("detect") /\ Ext = <<".", "j", "s", "o", "n">>) =>
        /\ opened
        /\ file_type \in {"GeoJSON", "None"}
        /\ file_type = "GeoJSON" <=>
               /\ file.json.ok
               /\ file.json.top = "object"
               /\ file.json.type.kind = "str"
               /\ file.json.type.text \in {"Feature", "FeatureCollection"}
        /\ raised = ""
        /\ file_type = "None" => pc = "exit" /\ exit_code = 1 /\ ~Done("read")

\* A .json file holding an object whose type is "feature" has been detected
\* as unsupported.
C2_Witness ==
    /\ Done("detect")
    /\ Ext = <<".", "j", "s", "o", "n">>
    /\ file.json.ok /\ file.json.top = "object"
    /\ file.json.type = [kind |-> "str", text |-> "feature"]
    /\ file_type = "None"

IsPrefix(s, t) == Len(s) <= Len(t) /\ s = SubSeq(t, 1, Len(s))

\* The steps of main in the order the claim gives them.
StepOrder == <<"exists", "detect", "read", "present">>

\* C3: a run checks that the file exists, detects the type, reads and
\* presents, in this order; it ends with code 1 at the first step that
\* fails and with code 0 only when all four succeed; a missing file ends it
\* before detection, an undetected type before any reader is called, and an
\* exception of a reader or of the presenter becomes exit code 1.
C3_ExitCodes ==
    /\ IsPrefix(steps, StepOrder)
    /\ pc = "exit" =>
          /\ exit_code \in {0, 1}
          /\ exit_code = 0 <=> (steps = StepOrder /\ raised = "")
          /\ ~file.exists => exit_code = 1 /\ ~Done("detect")
          /\ (Done("detect") /\ file_type = "None") => exit_code = 1 /\ ~Done("read")
          /\ raised # "" => exit_code = 1

\* read_excel has run on a workbook that opens, with a selector given.
ExcelSelected ==
    /\ Done("read")
    /\ file_type = "Excel"
    /\ file.workbook.ok
    /\ truthy(select)

\* The selector's tokens, trimmed.
Tokens == selected_sheets(select.text)

\* A token that is a valid 0-based index into the workbook's sheets.
IsSheetIndex(t, names) ==
    /\ t # <<>>
    /\ \A i \in DOMAIN t : t[i] \in {"0", "1", "2"}
    /\ DecimalValue(t) < Len(names)

\* The sheet a token names according to the claim, as a list of 0 or 1 names.
ClaimedSheet(t, names) ==
    IF IsSheetIndex(t, names) THEN <<names[DecimalValue(t) + 1]>>
    ELSE IF t \in Range(names) THEN <<t>>
    ELSE <<>>

RECURSIVE ClaimedSheets(_, _)
ClaimedSheets(ts, names) ==
    IF ts = <<>> THEN <<>>
    ELSE ClaimedSheet(Head(ts), names) \o ClaimedSheets(Tail(ts), names)

\* C4: when a selector is given and none of its tokens resolves to a sheet,
\* read_excel raises nothing and returns a record whose only key is
\* basic_info, with an error string that lists every sheet of the workbook,
\* and the run ends with exit code 0.
C4_NoValidSheets ==
    (ExcelSelected /\ ClaimedSheets(Tokens, file.workbook.sheet_names) = <<>>) =>
        /\ raised = ""
        /\ DOMAIN summary = {"basic_info"}
        /\ DOMAIN summary.basic_info = {"File", "Error"}
        /\ summary.basic_info["Error"].sheets = join(file.workbook.sheet_names, <<",", " ">>)
        /\ pc = "exit" => exit_code = 0

\* C5: every token that is a valid 0-based index or the exact name of a
\* sheet adds that sheet to sheets_to_process, in token order; every other
\* token adds nothing and raises no error.
C5_TokensResolve ==
    ExcelSelected =>
        /\ raised # "ValueError"
        /\ sheets_to_process = ClaimedSheets(Tokens, file.workbook.sheet_names)

\* A record read_excel returned.
ExcelReturned == Done("read") /\ file_type = "Excel" /\ raised = ""

\* C6: the number of sheets the selection yields fixes the record's shape.
\* One sheet (the default first sheet included): a flat record with columns,
\* the workbook's sheet count and all its sheet names, and no `sheets` key.
\* More than one: only basic_info and sheets at the top, sheets keyed by the
\* selected names, each value a flat record of that sheet.
C6_RecordShape ==
    ExcelReturned =>
        /\ Len(sheets_to_process) = 1 =>
              /\ "columns" \in DOMAIN summary
              /\ "sheets" \notin DOMAIN summary
              /\ summary.basic_info["Sheet"] = sheets_to_process[1]
              /\ summary.basic_info["Total Sheets"] = Len(file.workbook.sheet_names)
              /\ summary.basic_info["All Sheet Names"]
                     = join(file.workbook.sheet_names, <<",", " ">>)
        /\ Len(sheets_to_process) > 1 =>
              /\ DOMAIN summary = {"basic_info", "sheets"}
              /\ DOMAIN summary.sheets = Range(sheets_to_process)
              /\ \A name \in DOMAIN summary.sheets :
                    /\ {"basic_info", "columns"} \subseteq DOMAIN summary.sheets[name]
                    /\ "sheets" \notin DOMAIN summary.sheets[name]
                    /\ summary.sheets[name].basic_info["Sheet"] = name
                    /\ summary.sheets[name].basic_info["Rows"]
                           = file.workbook.tables[name].df.nrows
                    /\ Len(summary.sheets[name].columns)
                           = Len(file.workbook.tables[name].df.cols)

\* Two sheets were selected and a record with both nested was returned.
C6_Witness ==
    /\ ExcelReturned
    /\ select = Text(<<"1", ",", "0">>)
    /\ sheets_to_process = <<<<"b">>, <<"a">>>>
    /\ DOMAIN summary.sheets = {<<"a">>, <<"b">>}

\* The default the claim names for a non-positive --count.
ClaimedDefault == Some(5)

\* The flat records of a returned record: itself, or its nested sheets.
FlatRecords(rec) ==
    IF "sheets" \in DOMAIN rec
    THEN {rec.sheets[k] : k \in DOMAIN rec.sheets} ELSE {rec}

\* C7: a run with --count N, N <= 0, hands reader and presenter the sample
\* count 5 and gets from the reader what a run with --count 5 on the same
\* file and options gets (the same record with the same sample rows, or the
\* same exception); a run without --count gets no sample_data.
C7_NonPositiveCount ==
    Done("read") =>
        /\ (count.given /\ count.n <= 0) =>
              /\ sample_count = ClaimedDefault
              /\ summary = call_reader(file_type, file, verbose, select,
                                       sample_count_of(ClaimedDefault)).summary
              /\ ~Done("present") =>
                     raised = call_reader(file_type, file, verbose, select,
                                          sample_count_of(ClaimedDefault)).raised
              /\ (raised = "" /\ "sample_data" \in DOMAIN summary /\ file_type = "CSV") =>
                     Len(summary.sample_data) = Min(5, file.table.df.nrows)
        /\ (~count.given /\ raised = "") =>
              \A r \in FlatRecords(summary) : "sample_data" \notin DOMAIN r

\* A run with --count 0 on a CSV file of more than five rows got five rows.
C7_Witness ==
    /\ Done("read")
    /\ count = Some(0)
    /\ file_type = "CSV"
    /\ file.table.df.nrows > 5
    /\ raised = ""
    /\ Len(summary.sample_data) = 5

\* The first k rows of a source with the fields `fields`, as row mappings.
FirstRows(fields, k) == [i \in 1..k |-> [c \in fields |-> <<i, c>>]]

IsGeo == file_type \in {"GeoJSON", "Shapefile"}

\* The fields of the feature set other than the geometry, in source order.
GeoFields ==
    LET NotGeometry(c) == c.name # "geometry"
        kept == SelectSeq(file.gdf.df.cols, NotGeometry)
    IN  [k \in DOMAIN kept |-> kept[k].name]

\* The reader was called with a positive sample count on a source that
\* loads (every selected sheet, for a workbook).
SampledReadable ==
    /\ Done("read")
    /\ sample_count.given /\ sample_count.n > 0
    /\ file_type = "CSV" => file.table.ok
    /\ file_type = "Excel" =>
          /\ file.workbook.ok
          /\ \A s \in Range(file.workbook.sheet_names) : file.workbook.tables[s].ok
    /\ IsGeo => file.gdf.ok

\* C8: for every reader and every positive sample count N on a source of R
\* rows, sample_data is the first min(N, R) rows in source order: all R rows
\* when N > R, the empty sequence when R = 0, and no error.
C8_SampleIsPrefix ==
    SampledReadable =>
        /\ "basic_info" \in DOMAIN summary
        /\ file_type = "CSV" =>
              summary.sample_data
                  = FirstRows({"id", "name"}, Min(sample_count.n, file.table.df.nrows))
        /\ file_type = "Excel" =>
              \A r \in FlatRecords(summary) :
                  r.sample_data
                      = FirstRows({"id", "name"},
                                  Min(sample_count.n,
                                      file.workbook.tables[r.basic_info["Sheet"]].df.nrows))
        /\ IsGeo =>
              summary.sample_data
                  = FirstRows(Range(GeoFields), Min(sample_count.n, Len(file.gdf.geom_type)))

\* read_geojson or read_shapefile has run on a feature set that loads.
GeoRead == Done("read") /\ IsGeo /\ file.gdf.ok

\* The geometry type of the first feature ("None" when there is none).
FirstType == IF file.gdf.geom_type = <<>> THEN "None" ELSE file.gdf.geom_type[1]

\* C9: for every feature set, Total Area is a number only when the first
\* feature is a Polygon or MultiPolygon, Total Length only when it is a
\* LineString or MultiLineString, and otherwise both are "N/A"; never both
\* numbers; the features after the first do not matter.
C9_AreaOrLength ==
    GeoRead =>
        /\ "geometry_info" \in DOMAIN summary
        /\ summary.geometry_info["Total Area"] =
               (IF FirstType \in {"Polygon", "MultiPolygon"} THEN "%.6f" ELSE "N/A")
        /\ summary.geometry_info["Total Length"] =
               (IF FirstType \in {"LineString", "MultiLineString"} THEN "%.6f" ELSE "N/A")
        /\ ~(summary.geometry_info["Total Area"] # "N/A"
             /\ summary.geometry_info["Total Length"] # "N/A")

\* C10: in every record read_geojson or read_shapefile returns, the geometry
\* field is no entry of columns and no key of a sample row, of sample_values
\* or of statistics; columns lists the other fields in source order, and
\* every sample row has exactly the columns' names as keys.
C10_NoGeometryField ==
    (GeoRead /\ "basic_info" \in DOMAIN summary) =>
        /\ [k \in DOMAIN summary.columns |-> summary.columns[k].name] = GeoFields
        /\ \A k \in DOMAIN summary.columns : summary.columns[k].name # "geometry"
        /\ "sample_data" \in DOMAIN summary =>
              \A i \in DOMAIN summary.sample_data :
                  /\ "geometry" \notin DOMAIN summary.sample_data[i]
                  /\ DOMAIN summary.sample_data[i] = Range(GeoFields)
        /\ "sample_values" \in DOMAIN summary =>
              /\ "geometry" \notin DOMAIN summary.sample_values
              /\ DOMAIN summary.sample_values \subseteq Range(GeoFields)
        /\ "statistics" \in DOMAIN summary =>
              /\ "geometry" \notin DOMAIN summary.statistics
              /\ DOMAIN summary.statistics \subseteq Range(GeoFields)

\* A verbose record of a feature set with two fields and two features, with
\* two sample rows.
C10_Witness ==
    /\ GeoRead
    /\ verbose
    /\ GeoFields = <<"id", "name">>
    /\ "statistics" \in DOMAIN summary
    /\ "sample_data" \in DOMAIN summary
    /\ Len(summary.sample_data) = 2

\* The reader returned a record.
Returned == Done("read") /\ summary # NoSummary

\* The table a flat record summarises.
SourceDf(r) ==
    IF file_type = "CSV" THEN file.table.df
    ELSE IF file_type = "Excel" THEN file.workbook.tables[r.basic_info["Sheet"]].df
    ELSE file.gdf.df

\* C11: in every record a reader returns in verbose mode, each listed column
\* has a statistics entry; the entry of a numeric column has exactly the keys
\* min, max, mean and unique, with min, max and mean None when the column has
\* no value; the entry of any other column has exactly the keys unique and
\* most_common.
C11_StatisticsShape ==
    (Returned /\ verbose) =>
        \A r \in FlatRecords(summary) :
            "columns" \in DOMAIN r =>
                /\ "statistics" \in DOMAIN r
                /\ \A k \in DOMAIN r.columns :
                      LET name == r.columns[k].name
                          col  == ColumnNamed(SourceDf(r), name)
                      IN  /\ name \in DOMAIN r.statistics
                          /\ IF r.columns[k].type \in {"int64", "float64"}
                             THEN /\ DOMAIN r.statistics[name]
                                        = {"min", "max", "mean", "unique"}
                                  /\ col.missing = 1..SourceDf(r).nrows =>
                                        /\ r.statistics[name].min = "None"
                                        /\ r.statistics[name].max = "None"
                                        /\ r.statistics[name].mean = "None"
                             ELSE DOMAIN r.statistics[name] = {"unique", "most_common"}

\* read_csv or read_excel has run in verbose mode on a file that loads (the
\* workbook and each of its sheets, for read_excel).
TableReadVerbose ==
    /\ Done("read")
    /\ verbose
    /\ \/ file_type = "CSV" /\ file.table.ok
       \/ /\ file_type = "Excel"
          /\ file.workbook.ok
          /\ \A sh \in Range(file.workbook.sheet_names) : file.workbook.tables[sh].ok

\* C12: verbose read_csv and read_excel raise nothing on a table, and for
\* every column without a value (no rows, or every row missing) the
\* statistics entry has unique = 0 and no most-common value: the key is
\* absent or holds None.
C12_EmptyColumn ==
    TableReadVerbose =>
        /\ summary # NoSummary
        /\ \A r \in FlatRecords(summary) :
              "columns" \in DOMAIN r =>
                  \A k \in DOMAIN SourceDf(r).cols :
                      LET col == SourceDf(r).cols[k]
                      IN  col.missing = 1..SourceDf(r).nrows =>
                              /\ col.name \in DOMAIN r.statistics
                              /\ r.statistics[col.name].unique = 0
                              /\ "most_common" \in DOMAIN r.statistics[col.name] =>
                                     r.statistics[col.name].most_common = <<0, "None">>

\* A verbose read of a CSV file with a header and no rows gave its text
\* column the entry {unique: 0, most_common: None}.
C12_Witness ==
    /\ TableReadVerbose
    /\ file_type = "CSV"
    /\ file.table.df.nrows = 0
    /\ file.table.df.cols[2].dtype = "object"
    /\ summary.statistics["name"] = [unique |-> 0, most_common |-> <<0, "None">>]

\* read_excel reached its loop over two or more selected sheets, and one of
\* them does not load.
MultiSheetFailure ==
    /\ Done("read")
    /\ file_type = "Excel"
    /\ file.workbook.ok
    /\ Len(sheets_to_process) > 1
    /\ \E k \in DOMAIN sheets_to_process :
          ~file.workbook.tables[sheets_to_process[k]].ok

\* The position of the first selected sheet that does not load.
FirstFailure ==
    CHOOSE k \in DOMAIN sheets_to_process :
        /\ ~file.workbook.tables[sheets_to_process[k]].ok
        /\ \A j \in 1..(k - 1) : file.workbook.tables[sheets_to_process[j]].ok

\* C13: when one of two or more selected sheets fails to load, read_excel
\* raises that sheet's exception, has read the sheets up to it and none
\* after it, returns no record, nothing is displayed, and the run ends with
\* exit code 1.
C13_FailFast ==
    MultiSheetFailure =>
        /\ raised = "SheetReadError"
        /\ sheets_read = SubSeq(sheets_to_process, 1, FirstFailure)
        /\ summary = NoSummary
        /\ ~Done("present")
        /\ pc = "exit"
        /\ exit_code = 1

\* Sheets b and a were selected in this order, b failed to load and a was
\* never read.
C13_Witness ==
    /\ MultiSheetFailure
    /\ sheets_to_process = <<<<"b">>, <<"a">>>>
    /\ sheets_read = <<<<"b">>>>
    /\ exit_code = 1

\* The ways to list the names of a set, each once.
Listings(S) == {l \in [1..Cardinality(S) -> S] : Range(l) = S}

\* C14: in every multi-sheet record read_excel returns, "Selected Sheets"
\* is the number of nested records in `sheets`, and "Sheet Names" lists the
\* keys of `sheets`, each exactly once.
C14_SelectedMatchesNested ==
    (ExcelReturned /\ "sheets" \in DOMAIN summary) =>
        /\ summary.basic_info["Selected Sheets"] = Cardinality(DOMAIN summary.sheets)
        /\ \E l \in Listings(DOMAIN summary.sheets) :
              summary.basic_info["Sheet Names"] = join(l, <<",", " ">>)

=============================================================================
